---- MODULE Spec2Model ----
(***************************************************************************)
(* Keyword taxonomy engine of the KeywordGenerator component:              *)
(* tree building, cascading selection, LSI augmentation, filtered view     *)
(* and the per-node loading flag of the rendered Level2 components.        *)
(*                                                                         *)
(* Identifiers are modelled as the sequence of their '-'-separated         *)
(* segments: "l1-0-l2-1-lsi-2" is <<"l1", 0, "l2", 1, "lsi", 2>>.           *)
(* Stage labels are sequences of tokens so that String.startsWith is a     *)
(* real prefix test: a label "Decision (...)" is <<"Decision", "(q)">>.      *)
(***************************************************************************)
EXTENDS Integers, Sequences, FiniteSets, Bags, TLC

VARIABLES keywordMap, selectedKeywords, filters, expandedL1Nodes,
          isLoading, generationModel, isLsiLoading, lsiRequests,
          error, mapBeforeGenerate,
          translations, translatingNodeId, translateRequests,
          isSaveModalOpen, subProjectName, parentProjectId, newParentProjectName,
          projects, keywordLibrary, saveCall, dbProjects, alertMessage

\* the translation overlay and the pending translateBatch calls
trVars == <<translations, translatingNodeId, translateRequests>>

\* the save dialog, the data handed down by AppContext (projects and
\* keywordLibrary, as last fetched), the pending handleSaveSubProject call, the
\* projects table of the persistence service and the last message shown by
\* alert()
saveVars == <<isSaveModalOpen, subProjectName, parentProjectId, newParentProjectName,
              projects, keywordLibrary, saveCall, dbProjects, alertMessage>>

vars == <<keywordMap, selectedKeywords, filters, expandedL1Nodes,
          isLoading, generationModel, isLsiLoading, lsiRequests,
          error, mapBeforeGenerate, trVars, saveVars>>

\* ---------------------------------------------------------------- bounds
MaxTotalTerms == 2
MaxInFlight == 2

\* ------------------------------------------------------------ option type
Null == [some |-> FALSE, val |-> <<>>]
Some(x) == [some |-> TRUE, val |-> x]

\* ------------------------------------------------------------ small helpers
Range(s) == {s[i] : i \in 1..Len(s)}

StartsWith(s, p) == Len(p) <= Len(s) /\ SubSeq(s, 1, Len(p)) = p

\* ------------------------------------------------------------ label values
Traffic == "Traffic"
Comparison == "Comparison"
Conversion == "Conversion"
Awareness == <<"Awareness", "(q)">>
Decision == <<"Decision", "(q)">>
\* page-type labels: the three legacy English labels and their canonical
\* (Chinese) counterparts, written in ASCII
EnProduct == "Product Detail Pages"
EnArticle == "Article/Blog Pages"
EnHub == "Hub/Category Pages"
ZhProduct == "zh:product-detail"
ZhArticle == "zh:article"
ZhHub == "zh:hub"

\* ------------------------------------------------------------ tree builder
\* Raw generation results (KeywordMap.keywordHierarchy): no identifiers,
\* lsi is a list of plain strings.
\* the optional isNew flag of a term: not set by the tree builder
Undefined == "undefined"
IsNewTrue == "true"
IsNewFalse == "false"

RawL2(kw, stage, lsi) == [keyword |-> kw, type |-> stage, lsi |-> lsi]
RawL1(kw, cat, pt, ch) == [keyword |-> kw, type |-> cat, pageType |-> pt, children |-> ch]

RawA == RawL1("A", Traffic, EnArticle,
             <<RawL2("A1", Awareness, <<"a", "b">>), RawL2("A2", Decision, <<>>)>>)
RawB == RawL1("B", Comparison, ZhArticle, <<RawL2("B1", Decision, <<"a">>)>>)

RawC == RawL1("C", Conversion, ZhHub, <<RawL2("C1", Awareness, <<>>)>>)

RawMaps == { <<RawA, RawB>>, <<RawC>> }

\* generation results used to exercise the filtered view: generateKeywordMap
\* hands back whatever JSON the model produced, so a Level1 entry may come
\* without children and with a page-type label outside PAGE_TYPE_MAP
RawD == RawL1("D", Comparison, "Landing Pages", <<>>)
RawE == RawL1("E", Traffic, EnHub, <<RawL2("E1", Decision, <<"a">>), RawL2("E2", Awareness, <<>>)>>)
RawF == RawL1("F", Traffic, "Landing Pages", <<RawL2("F1", Decision, <<>>)>>)

FilterMaps == { <<RawA, RawB>>, <<RawC, RawD>>, <<RawE, RawF>> }

transformToRenderableMap(map) ==
    [i \in 1..Len(map) |->
        [keyword |-> map[i].keyword, type |-> map[i].type, pageType |-> map[i].pageType,
         id |-> <<"l1", i - 1>>,
         children |-> [j \in 1..Len(map[i].children) |->
            [keyword |-> map[i].children[j].keyword, type |-> map[i].children[j].type,
             id |-> <<"l1", i - 1, "l2", j - 1>>,
             lsi |-> [k \in 1..Len(map[i].children[j].lsi) |->
                [id |-> <<"l1", i - 1, "l2", j - 1, "lsi", k - 1>>,
                 text |-> map[i].children[j].lsi[k],
                 isNew |-> Undefined]]]]]]

\* ------------------------------------------------------------ tree access
Tree == keywordMap.val

L1Nodes(km) == Range(km)
L2Nodes(km) == UNION { Range(l1.children) : l1 \in Range(km) }
LsiNodes(km) == UNION { Range(l2.lsi) : l2 \in L2Nodes(km) }
L1Ids(km) == { n.id : n \in L1Nodes(km) }
L2Ids(km) == { n.id : n \in L2Nodes(km) }
LsiIds(km) == { n.id : n \in LsiNodes(km) }
AllIds(km) == L1Ids(km) \cup L2Ids(km) \cup LsiIds(km)

NoNode == [none |-> TRUE]
IsNoNode(node) == "none" \in DOMAIN node

\* first node, in document order, whose id equals id; NoNode when absent
findNodeById(id) ==
    IF ~keywordMap.some THEN NoNode
    ELSE LET h1 == { n \in L1Nodes(Tree) : n.id = id }
             h2 == { n \in L2Nodes(Tree) : n.id = id }
             h3 == { n \in LsiNodes(Tree) : n.id = id }
         IN IF h1 # {} THEN CHOOSE n \in h1 : TRUE
            ELSE IF h2 # {} THEN CHOOSE n \in h2 : TRUE
            ELSE IF h3 # {} THEN CHOOSE n \in h3 : TRUE
            ELSE NoNode

isLevel1Node(node) == "children" \in DOMAIN node
isLevel2Node(node) == "lsi" \in DOMAIN node

\* variant of getParentId that cuts one segment instead of two
getParentId_CutOne(childId) ==
    IF Len(childId) <= 2 THEN <<>>
    ELSE SubSeq(childId, 1, Len(childId) - 1)

getParentId(childId) ==
    IF Len(childId) <= 2 THEN <<>>
    ELSE SubSeq(childId, 1, Len(childId) - 2)

getChildren(node) ==
    IF isLevel1Node(node) THEN node.children
    ELSE IF isLevel2Node(node) THEN node.lsi
    ELSE <<>>

\* ------------------------------------------------------------ selection
\* SelectedKeywords is a Record<string, boolean>: a function from a set of
\* identifiers to BOOLEAN.  sel[k] of an absent key is undefined (falsy).
EmptySel == [k \in {} |-> TRUE]
Truthy(sel, k) == k \in DOMAIN sel /\ sel[k]

SetKeys(sel, ks, v) == [k \in DOMAIN sel \cup ks |-> IF k \in ks THEN v ELSE sel[k]]
DeleteKey(sel, key) == [k \in DOMAIN sel \ {key} |-> sel[k]]

\* variant of cascadeDown that forgets the recursive call: under a Level1 node
\* only the Level2 children are set, their terms are left alone
cascadeDown_NoRecursion(sel, nodeId, isChecked) ==
    LET node == findNodeById(nodeId) IN
    IF IsNoNode(node) THEN sel
    ELSE IF isLevel1Node(node)
         THEN SetKeys(sel, { c.id : c \in Range(node.children) }, isChecked)
    ELSE IF isLevel2Node(node)
         THEN SetKeys(sel, { t.id : t \in Range(node.lsi) }, isChecked)
    ELSE sel

\* cascadeDown: a Level1 node sets every child and, recursively, every term of
\* every child; a Level2 node sets its terms; a term has nothing below it.
cascadeDown(sel, nodeId, isChecked) ==
    LET node == findNodeById(nodeId) IN
    IF IsNoNode(node) THEN sel
    ELSE IF isLevel1Node(node)
         THEN SetKeys(sel, { c.id : c \in Range(node.children) }
                           \cup UNION { { t.id : t \in Range(c.lsi) } : c \in Range(node.children) },
                      isChecked)
    ELSE IF isLevel2Node(node)
         THEN SetKeys(sel, { t.id : t \in Range(node.lsi) }, isChecked)
    ELSE sel

\* variant of cascadeUp that recomputes the direct parent only and does not
\* continue to the grandparent
cascadeUp_OneLevel(sel, nodeId) ==
    LET parentId == getParentId(nodeId) IN
    IF parentId = <<>> THEN sel
    ELSE LET parentNode == findNodeById(parentId) IN
         IF IsNoNode(parentNode) \/ ~(isLevel1Node(parentNode) \/ isLevel2Node(parentNode))
         THEN sel
         ELSE IF \A s \in Range(getChildren(parentNode)) : Truthy(sel, s.id)
              THEN SetKeys(sel, {parentId}, TRUE)
              ELSE DeleteKey(sel, parentId)

RECURSIVE cascadeUp(_, _)
cascadeUp(sel, nodeId) ==
    LET parentId == getParentId(nodeId) IN
    IF parentId = <<>> THEN sel
    ELSE LET parentNode == findNodeById(parentId) IN
         IF IsNoNode(parentNode) \/ ~(isLevel1Node(parentNode) \/ isLevel2Node(parentNode))
         THEN sel
         ELSE LET siblings == getChildren(parentNode)
                  allSiblingsChecked == \A s \in Range(siblings) : Truthy(sel, s.id)
              IN cascadeUp(IF allSiblingsChecked
                           THEN SetKeys(sel, {parentId}, TRUE)
                           ELSE DeleteKey(sel, parentId),
                           parentId)

\* variant of removeFalse that keeps every entry
removeFalse_KeepAll(sel) == sel

\* the final Object.fromEntries(... filter(([, v]) => v))
removeFalse(sel) == [k \in { x \in DOMAIN sel : sel[x] } |-> sel[k]]

\* variant of toggle that flips the stored value of id instead of setting it
\* to the value handed in
toggle_Flip(prev, id, checked) ==
    LET v == ~Truthy(prev, id) IN
    removeFalse(cascadeUp(cascadeDown(SetKeys(prev, {id}, v), id, v), id))

\* the updater passed to setSelectedKeywords
toggle(prev, id, checked) ==
    removeFalse(cascadeUp(cascadeDown(SetKeys(prev, {id}, checked), id, checked), id))

\* ------------------------------------------------------------ filter view
NoFilter == [category |-> "", pageType |-> "", userBehavior |-> <<>>]

FilterChoices ==
    { NoFilter,
      [category |-> "", pageType |-> "", userBehavior |-> <<"Decision">>] }

\* every combination the three selects of the FilterBar can hand to setFilters
AllFilters ==
    [category : {"", Traffic, Comparison},
     pageType : {"", ZhArticle, ZhHub},
     userBehavior : {<<>>, <<"Decision">>}]

PAGE_TYPE_MAP(label) ==
    CASE label = EnProduct -> ZhProduct
      [] label = EnArticle -> ZhArticle
      [] label = EnHub -> ZhHub
      [] label = ZhProduct -> ZhProduct
      [] label = ZhArticle -> ZhArticle
      [] label = ZhHub -> ZhHub
      [] OTHER -> "undefined"

\* positions of s, in order, whose element satisfies the test given as a set
RECURSIVE KeepFrom(_, _, _)
KeepFrom(s, ok, i) ==
    IF i > Len(s) THEN <<>>
    ELSE IF i \in ok THEN <<s[i]>> \o KeepFrom(s, ok, i + 1)
    ELSE KeepFrom(s, ok, i + 1)

\* variant of filteredKeywordMap without the early return for empty criteria
filteredKeywordMap_NoEarlyReturn(km, f) ==
    LET mapped == [i \in 1..Len(km) |->
             [km[i] EXCEPT !.children =
                 IF f.userBehavior # <<>>
                 THEN KeepFrom(@, { j \in 1..Len(@) : StartsWith(@[j].type, f.userBehavior) }, 1)
                 ELSE @]]
    IN KeepFrom(mapped,
                { i \in 1..Len(mapped) :
                    /\ (f.category = "" \/ mapped[i].type = f.category)
                    /\ (f.pageType = "" \/ PAGE_TYPE_MAP(mapped[i].pageType) = f.pageType)
                    /\ Len(mapped[i].children) > 0 },
                1)

\* variant of filteredKeywordMap that keeps a Level1 node whose children were
\* all filtered out
filteredKeywordMap_NoChildCheck(km, f) ==
    IF f.category = "" /\ f.pageType = "" /\ f.userBehavior = <<>> THEN km
    ELSE LET mapped == [i \in 1..Len(km) |->
                 [km[i] EXCEPT !.children =
                     IF f.userBehavior # <<>>
                     THEN KeepFrom(@, { j \in 1..Len(@) : StartsWith(@[j].type, f.userBehavior) }, 1)
                     ELSE @]]
         IN KeepFrom(mapped,
                     { i \in 1..Len(mapped) :
                         /\ (f.category = "" \/ mapped[i].type = f.category)
                         /\ (f.pageType = "" \/ PAGE_TYPE_MAP(mapped[i].pageType) = f.pageType) },
                     1)

\* variant of filteredKeywordMap that leaves the Level2 children of a node
\* alone when a stage prefix is set
filteredKeywordMap_NoStageFilter(km, f) ==
    IF f.category = "" /\ f.pageType = "" /\ f.userBehavior = <<>> THEN km
    ELSE KeepFrom(km,
                  { i \in 1..Len(km) :
                      /\ (f.category = "" \/ km[i].type = f.category)
                      /\ (f.pageType = "" \/ PAGE_TYPE_MAP(km[i].pageType) = f.pageType)
                      /\ Len(km[i].children) > 0 },
                  1)

\* the useMemo that derives the view handed to the node list
filteredKeywordMap(km, f) ==
    IF f.category = "" /\ f.pageType = "" /\ f.userBehavior = <<>> THEN km
    ELSE LET mapped == [i \in 1..Len(km) |->
                 [km[i] EXCEPT !.children =
                     IF f.userBehavior # <<>>
                     THEN KeepFrom(@, { j \in 1..Len(@) : StartsWith(@[j].type, f.userBehavior) }, 1)
                     ELSE @]]
         IN KeepFrom(mapped,
                     { i \in 1..Len(mapped) :
                         /\ (f.category = "" \/ mapped[i].type = f.category)
                         /\ (f.pageType = "" \/ PAGE_TYPE_MAP(mapped[i].pageType) = f.pageType)
                         /\ Len(mapped[i].children) > 0 },
                     1)

\* ------------------------------------------------------------ rendering
\* isExpanded prop of a KeywordMapNode
IsExpandedL1(ex, id) ==
    IF ex.some THEN (id \in DOMAIN ex.val /\ ex.val[id]) ELSE TRUE

\* the Level1 nodes handed to KeywordMapNode (filtered copies)
RenderedL1(km, f, loading) ==
    IF km.some /\ ~loading THEN Range(filteredKeywordMap(km.val, f)) ELSE {}

\* the Level2 nodes for which a Level2Component is mounted
RenderedL2(km, f, ex, loading) ==
    UNION { Range(l1.children) : l1 \in { n \in RenderedL1(km, f, loading) : IsExpandedL1(ex, n.id) } }

MountedL2(km, f, ex, loading) == { l2.id : l2 \in RenderedL2(km, f, ex, loading) }

\* Level2Component state survives a render only while the component stays
\* mounted; a newly mounted component starts with isLsiLoading = false.
ReconcileFlags(flags, mounted) ==
    [id \in mounted |-> IF id \in DOMAIN flags THEN flags[id] ELSE FALSE]

\* a pending handleLsiGeneration call whose component was unmounted can no
\* longer change the flag of the component mounted for that node later
Orphaned(r, mounted) == [r EXCEPT !.live = @ /\ r.level2Id \in mounted]

ReconcileReqs(reqs, mounted) ==
    LET dom == { Orphaned(r, mounted) : r \in DOMAIN reqs }
        live(x) == [x EXCEPT !.live = TRUE]
    IN [x \in dom |->
            (IF x \in DOMAIN reqs THEN reqs[x] ELSE 0)
          + (IF ~x.live /\ x.level2Id \notin mounted /\ live(x) \in DOMAIN reqs
             THEN reqs[live(x)] ELSE 0)]

\* checkbox state computed by KeywordMapNode for the node it is given
L1Checkbox(l1, sel) ==
    LET childIds == { c.id : c \in Range(l1.children) }
                    \cup UNION { { t.id : t \in Range(c.lsi) } : c \in Range(l1.children) }
        selectedCount == Cardinality({ id \in childIds : Truthy(sel, id) })
    IN IF childIds = {}
       THEN [isChecked |-> Truthy(sel, l1.id), isIndeterminate |-> FALSE]
       ELSE [isChecked |-> selectedCount = Cardinality(childIds),
             isIndeterminate |-> selectedCount > 0 /\ selectedCount < Cardinality(childIds)]

\* checkbox state computed by Level2Component
L2Checkbox(l2, sel) ==
    LET lsiIds == { t.id : t \in Range(l2.lsi) }
        selectedCount == Cardinality({ id \in lsiIds : Truthy(sel, id) })
    IN IF lsiIds = {}
       THEN [isChecked |-> Truthy(sel, l2.id), isIndeterminate |-> FALSE]
       ELSE [isChecked |-> selectedCount = Cardinality(lsiIds),
             isIndeterminate |-> selectedCount > 0 /\ selectedCount < Cardinality(lsiIds)]

\* a Button with isLoading set does not react to clicks
ButtonEnabled(loading) == ~loading

\* ------------------------------------------------------------ augmentation
\* candidate lists a generation call can resolve with (any array of strings
\* passes the check of the reply, one that repeats a string included)
Candidates == { <<>>, <<"a">>, <<"b">>, <<"a", "b">>, <<"a", "a">> }

\* variant of mergeLsi that numbers the appended terms from 0 instead of
\* continuing after the existing ones
mergeLsi_RestartIndex(currentMap, level1Id, level2NodeId, newLsis) ==
    IF ~currentMap.some THEN Null
    ELSE Some([i \in 1..Len(currentMap.val) |->
            IF currentMap.val[i].id # level1Id THEN currentMap.val[i]
            ELSE [currentMap.val[i] EXCEPT !.children =
                    [j \in 1..Len(@) |->
                        IF @[j].id # level2NodeId THEN @[j]
                        ELSE LET l2 == @[j]
                                 existingLsiTexts == { t.text : t \in Range(l2.lsi) }
                                 kept == KeepFrom(newLsis,
                                             { n \in 1..Len(newLsis) : newLsis[n] \notin existingLsiTexts }, 1)
                                 uniqueNewLsis == [index \in 1..Len(kept) |->
                                     [id |-> l2.id \o <<"lsi", index - 1>>,
                                      text |-> kept[index],
                                      isNew |-> IsNewTrue]]
                             IN [l2 EXCEPT !.lsi =
                                    [n \in 1..Len(l2.lsi) |-> [l2.lsi[n] EXCEPT !.isNew = IsNewFalse]]
                                    \o uniqueNewLsis]]]])

\* variant of mergeLsi that appends to every Level2 child of the Level1 node
mergeLsi_EveryChild(currentMap, level1Id, level2NodeId, newLsis) ==
    IF ~currentMap.some THEN Null
    ELSE Some([i \in 1..Len(currentMap.val) |->
            IF currentMap.val[i].id # level1Id THEN currentMap.val[i]
            ELSE [currentMap.val[i] EXCEPT !.children =
                    [j \in 1..Len(@) |->
                        LET l2 == @[j]
                            existingLsiTexts == { t.text : t \in Range(l2.lsi) }
                            kept == KeepFrom(newLsis,
                                        { n \in 1..Len(newLsis) : newLsis[n] \notin existingLsiTexts }, 1)
                            uniqueNewLsis == [index \in 1..Len(kept) |->
                                [id |-> l2.id \o <<"lsi", Len(l2.lsi) + index - 1>>,
                                 text |-> kept[index],
                                 isNew |-> IsNewTrue]]
                        IN [l2 EXCEPT !.lsi =
                               [n \in 1..Len(l2.lsi) |-> [l2.lsi[n] EXCEPT !.isNew = IsNewFalse]]
                               \o uniqueNewLsis]]]])

\* the updater passed to setKeywordMap when generateLsiForNode resolves
mergeLsi(currentMap, level1Id, level2NodeId, newLsis) ==
    IF ~currentMap.some THEN Null
    ELSE Some([i \in 1..Len(currentMap.val) |->
            IF currentMap.val[i].id # level1Id THEN currentMap.val[i]
            ELSE [currentMap.val[i] EXCEPT !.children =
                    [j \in 1..Len(@) |->
                        IF @[j].id # level2NodeId THEN @[j]
                        ELSE LET l2 == @[j]
                                 existingLsiTexts == { t.text : t \in Range(l2.lsi) }
                                 kept == KeepFrom(newLsis,
                                             { n \in 1..Len(newLsis) : newLsis[n] \notin existingLsiTexts }, 1)
                                 uniqueNewLsis == [index \in 1..Len(kept) |->
                                     [id |-> l2.id \o <<"lsi", Len(l2.lsi) + index - 1>>,
                                      text |-> kept[index],
                                      isNew |-> IsNewTrue]]
                             IN [l2 EXCEPT !.lsi =
                                    [n \in 1..Len(l2.lsi) |-> [l2.lsi[n] EXCEPT !.isNew = IsNewFalse]]
                                    \o uniqueNewLsis]]]])

RECURSIVE SumLens(_)
SumLens(S) == IF S = {} THEN 0 ELSE LET x == CHOOSE y \in S : TRUE IN Len(x.lsi) + SumLens(S \ {x})

\* number of terms in the tree (used only to cap growth)
TotalTerms(km) == IF ~km.some THEN 0 ELSE SumLens(L2Nodes(km.val))

\* ------------------------------------------------------------ identifiers as text
\* decimal digits of n, most significant first
RECURSIVE Digits(_)
Digits(n) ==
    LET digit == <<"0", "1", "2", "3", "4", "5", "6", "7", "8", "9">>
    IN IF n < 10 THEN <<digit[n + 1]>> ELSE Digits(n \div 10) \o <<digit[(n % 10) + 1]>>

\* the characters of the identifier string: the segment names and the "-"
\* are single tokens, every number is spelled out digit by digit, so that
\* "l1-1" is a proper prefix of "l1-10"
RECURSIVE IdString(_)
IdString(id) ==
    IF id = <<>> THEN <<>>
    ELSE LET seg == <<id[1]>> \o <<"-">> \o Digits(id[2])
         IN IF Len(id) = 2 THEN seg
            ELSE seg \o <<"-">> \o IdString(SubSeq(id, 3, Len(id)))

\* key.startsWith(id) on the identifier strings
KeyStartsWith(key, id) == StartsWith(IdString(key), IdString(id))

\* ------------------------------------------------------------ pruning on save
\* variant of savedLsiOf that keeps every term of a retained Level2 node
savedLsiOf_KeepAll(l2, sel) ==
    [n \in 1..Len(l2.lsi) |-> [id |-> l2.lsi[n].id, text |-> l2.lsi[n].text]]

\* l2.lsi.filter(lsi => selectedKeywords[lsi.id]).map(lsi => ({id, text}))
savedLsiOf(l2, sel) ==
    LET kept == KeepFrom(l2.lsi, { n \in 1..Len(l2.lsi) : Truthy(sel, l2.lsi[n].id) }, 1)
    IN [n \in 1..Len(kept) |-> [id |-> kept[n].id, text |-> kept[n].text]]

\* isL1SelectedOrIndeterminate / isL2SelectedOrIndeterminate
someKeyStartsWith(sel, id) == \E key \in DOMAIN sel : KeyStartsWith(key, id)

\* the children pushed to savedChildren for a Level1 node
savedChildrenOf(l1, sel) ==
    LET passes == { j \in 1..Len(l1.children) :
                      /\ someKeyStartsWith(sel, l1.children[j].id)
                      /\ (Truthy(sel, l1.children[j].id)
                            \/ Len(savedLsiOf(l1.children[j], sel)) > 0) }
        kept == KeepFrom(l1.children, passes, 1)
    IN [j \in 1..Len(kept) |-> [kept[j] EXCEPT !.lsi = savedLsiOf(kept[j], sel)]]

\* savedHierarchy as built by handleSaveSubProject (keywordMap?.forEach)
savedHierarchyOf(km, sel) ==
    IF ~km.some THEN <<>>
    ELSE LET passes == { i \in 1..Len(km.val) :
                           /\ someKeyStartsWith(sel, km.val[i].id)
                           /\ (Truthy(sel, km.val[i].id)
                                 \/ Len(savedChildrenOf(km.val[i], sel)) > 0) }
             kept == KeepFrom(km.val, passes, 1)
         IN [i \in 1..Len(kept) |-> [kept[i] EXCEPT !.children = savedChildrenOf(kept[i], sel)]]

\* savedNodeIds: the identifiers added while the hierarchy is built, the
\* terms inside the filter callback, the nodes when they are pushed
savedNodeIdsOf(km, sel) ==
    IF ~km.some THEN {}
    ELSE UNION { LET l2s == { l2 \in Range(l1.children) : someKeyStartsWith(sel, l2.id) }
                 IN UNION { { t.id : t \in Range(savedLsiOf(l2, sel)) } : l2 \in l2s }
                    \cup { l2.id : l2 \in Range(savedChildrenOf(l1, sel)) }
                    \cup (IF Truthy(sel, l1.id) \/ Len(savedChildrenOf(l1, sel)) > 0
                          THEN {l1.id} ELSE {})
               : l1 \in { n \in Range(km.val) : someKeyStartsWith(sel, n.id) } }

\* variant of savedTranslationsOf that copies the whole overlay
savedTranslationsOf_CopyAll(tr, nodeIds) == tr

\* the loop over savedNodeIds that copies the truthy overlay entries
savedTranslationsOf(tr, nodeIds) ==
    [k \in { n \in nodeIds : n \in DOMAIN tr /\ tr[n] # <<>> } |-> tr[k]]

\* ------------------------------------------------------------ version naming
\* names are sequences of tokens: words, the blank " " and the suffix
\* "(Version n)"
VersionToken(n) ==
    CASE n = 1 -> "(Version 1)"
      [] n = 2 -> "(Version 2)"
      [] n = 3 -> "(Version 3)"
      [] n = 4 -> "(Version 4)"
      [] n = 5 -> "(Version 5)"
      [] n = 6 -> "(Version 6)"
      [] OTHER -> "(Version 7)"

IsVersionToken(t) == \E n \in 1..7 : t = VersionToken(n)

\* String.prototype.trim
RECURSIVE Trim(_)
Trim(name) ==
    IF name = <<>> THEN name
    ELSE IF Head(name) = " " THEN Trim(Tail(name))
    ELSE IF name[Len(name)] = " " THEN Trim(SubSeq(name, 1, Len(name) - 1))
    ELSE name

\* name.replace(/\s\(Version \d+\)$/, '')
StripVersion(name) ==
    IF Len(name) >= 2 /\ IsVersionToken(name[Len(name)]) /\ name[Len(name) - 1] = " "
    THEN SubSeq(name, 1, Len(name) - 2)
    ELSE name

BaseNameOf(name) == Trim(StripVersion(name))

\* the saved sub-projects of the library under parent with base name baseName
LineageOf(library, parent, baseName) ==
    { sp \in DOMAIN library : sp.parentProjectId = parent /\ BaseNameOf(sp.name) = baseName }

RECURSIVE CopiesOf(_, _)
CopiesOf(library, S) ==
    IF S = {} THEN 0
    ELSE LET sp == CHOOSE x \in S : TRUE IN library[sp] + CopiesOf(library, S \ {sp})

\* variant of finalSubProjectNameOf that numbers the version after the
\* lineage size without adding one
finalSubProjectNameOf_OffByOne(entered, library, parent) ==
    LET finalSubProjectName == Trim(entered)
        baseName == BaseNameOf(finalSubProjectName)
        lineage == LineageOf(library, parent, baseName)
    IN IF \E sp \in lineage : sp.name = finalSubProjectName
       THEN baseName \o <<" ", VersionToken(CopiesOf(library, lineage))>>
       ELSE finalSubProjectName

\* the versioning logic of handleSaveSubProject
finalSubProjectNameOf(entered, library, parent) ==
    LET finalSubProjectName == Trim(entered)
        baseName == BaseNameOf(finalSubProjectName)
        lineage == LineageOf(library, parent, baseName)
    IN IF \E sp \in lineage : sp.name = finalSubProjectName
       THEN baseName \o <<" ", VersionToken(CopiesOf(library, lineage) + 1)>>
       ELSE finalSubProjectName

\* ------------------------------------------------------------ state machine
\* Record<string, string> without entries (texts are sequences of tokens,
\* the empty string is <<>>)
EmptyTranslations == [k \in {} |-> <<>>]

\* the '' of parentProjectId, and the value of the "create new" option
NoProject == ""
CreateNew == "create_new"

\* messages of the alert() calls of handleSaveSubProject
NoAlert == "none"
AlertNeedProjectName == "alert: enter the name of the new project"
AlertNeedName == "alert: enter a sub-project name and choose a project"
AlertNoKeywords == "alert: no keywords selected"
AlertSaved == "alert: saved"
AlertSaveFailed == "alert: save failed"

\* message stored by the catch block of handleGenerateMap
GenerationError == "generation failed"

\* state of a freshly mounted KeywordGenerator
InitComponent ==
    /\ keywordMap = Null
    /\ selectedKeywords = EmptySel
    /\ filters = NoFilter
    /\ expandedL1Nodes = Null
    /\ isLoading = FALSE
    /\ generationModel = FALSE
    /\ isLsiLoading = EmptySel
    /\ lsiRequests = EmptyBag
    /\ error = Null
    /\ mapBeforeGenerate = Null
    /\ translations = EmptyTranslations
    /\ translatingNodeId = Null
    /\ translateRequests = EmptyBag
    /\ isSaveModalOpen = FALSE
    /\ subProjectName = <<>>
    /\ parentProjectId = NoProject
    /\ newParentProjectName = <<>>
    /\ saveCall = Null
    /\ alertMessage = NoAlert

Init ==
    /\ InitComponent
    /\ projects = <<>>
    /\ dbProjects = <<>>
    /\ keywordLibrary = EmptyBag

\* re-render: component-local state follows the set of mounted components
Render(flags, reqs) ==
    LET mounted == MountedL2(keywordMap', filters', expandedL1Nodes', isLoading') IN
    /\ isLsiLoading' = ReconcileFlags(flags, mounted)
    /\ lsiRequests' = ReconcileReqs(reqs, mounted)

\* variant of GenerateStart that leaves the SelectionSet as it is
GenerateStart_KeepSelection ==
    /\ ~isLoading
    /\ isLoading' = TRUE
    /\ keywordMap' = Null
    /\ expandedL1Nodes' = Null
    /\ error' = Null
    /\ translations' = EmptyTranslations
    /\ mapBeforeGenerate' = keywordMap
    /\ UNCHANGED <<selectedKeywords, filters, generationModel, translatingNodeId,
                   translateRequests, saveVars>>
    /\ Render(isLsiLoading, lsiRequests)

\* handleGenerateMap up to the await
GenerateStart ==
    /\ ~isLoading
    /\ isLoading' = TRUE
    /\ keywordMap' = Null
    /\ selectedKeywords' = EmptySel
    /\ expandedL1Nodes' = Null
    /\ error' = Null
    /\ translations' = EmptyTranslations
    /\ mapBeforeGenerate' = keywordMap
    /\ UNCHANGED <<filters, generationModel, translatingNodeId, translateRequests, saveVars>>
    /\ Render(isLsiLoading, lsiRequests)

\* generateKeywordMap resolved
GenerateSucceed ==
    /\ isLoading
    /\ \E result \in RawMaps :
         LET renderableMap == transformToRenderableMap(result) IN
         /\ keywordMap' = Some(renderableMap)
         /\ expandedL1Nodes' = Some([id \in L1Ids(renderableMap) |-> TRUE])
    /\ generationModel' = TRUE
    /\ isLoading' = FALSE
    /\ mapBeforeGenerate' = Null
    /\ UNCHANGED <<selectedKeywords, filters, error, trVars, saveVars>>
    /\ Render(isLsiLoading, lsiRequests)

\* generateKeywordMap rejected
GenerateFail ==
    /\ isLoading
    /\ isLoading' = FALSE
    /\ error' = Some(GenerationError)
    /\ mapBeforeGenerate' = Null
    /\ UNCHANGED <<keywordMap, selectedKeywords, filters, expandedL1Nodes, generationModel,
                   trVars, saveVars>>
    /\ Render(isLsiLoading, lsiRequests)

\* a click on a rendered checkbox: Level1 and Level2 checkboxes pass the
\* negation of the state they display, a term pill passes !selectedKeywords[id]
ClickValue(node, sel) ==
    IF isLevel1Node(node) THEN ~L1Checkbox(node, sel).isChecked
    ELSE IF isLevel2Node(node) THEN ~L2Checkbox(node, sel).isChecked
    ELSE ~Truthy(sel, node.id)

handleSelectionChange(id, checked) ==
    /\ selectedKeywords' = toggle(selectedKeywords, id, checked)
    /\ UNCHANGED <<keywordMap, filters, expandedL1Nodes, isLoading, generationModel,
                   error, mapBeforeGenerate, trVars, saveVars>>
    /\ Render(isLsiLoading, lsiRequests)

SelectL1 ==
    \E l1 \in RenderedL1(keywordMap, filters, isLoading) :
        handleSelectionChange(l1.id, ClickValue(l1, selectedKeywords))

SelectL2 ==
    \E l2 \in RenderedL2(keywordMap, filters, expandedL1Nodes, isLoading) :
        handleSelectionChange(l2.id, ClickValue(l2, selectedKeywords))

SelectLsi ==
    \E l2 \in RenderedL2(keywordMap, filters, expandedL1Nodes, isLoading) :
        \E t \in Range(l2.lsi) :
            handleSelectionChange(t.id, ClickValue(t, selectedKeywords))

\* FilterBar.onFilter / onReset
SetFiltersTo(f) ==
    /\ keywordMap.some /\ ~isLoading
    /\ filters' = f
    /\ filters' # filters
    /\ UNCHANGED <<keywordMap, selectedKeywords, expandedL1Nodes, isLoading, generationModel,
                   error, mapBeforeGenerate, trVars, saveVars>>
    /\ Render(isLsiLoading, lsiRequests)

SetFilters == \E f \in FilterChoices : SetFiltersTo(f)

handleToggleExpand ==
    /\ \E l1 \in RenderedL1(keywordMap, filters, isLoading) :
         expandedL1Nodes' =
            IF ~expandedL1Nodes.some THEN Some(SetKeys(EmptySel, {l1.id}, FALSE))
            ELSE Some(SetKeys(expandedL1Nodes.val, {l1.id}, ~Truthy(expandedL1Nodes.val, l1.id)))
    /\ UNCHANGED <<keywordMap, selectedKeywords, filters, isLoading, generationModel,
                   error, mapBeforeGenerate, trVars, saveVars>>
    /\ Render(isLsiLoading, lsiRequests)

\* Level2Component.handleLsiGeneration up to the await inside handleGenerateLsi
LsiGenerationStart ==
    \E l1 \in { n \in RenderedL1(keywordMap, filters, isLoading) : IsExpandedL1(expandedL1Nodes, n.id) } :
      \E l2 \in Range(l1.children) :
        /\ ButtonEnabled(isLsiLoading[l2.id])
        /\ BagCardinality(lsiRequests) < MaxInFlight
        /\ UNCHANGED <<keywordMap, selectedKeywords, filters, expandedL1Nodes, isLoading,
                       generationModel, error, mapBeforeGenerate, trVars, saveVars>>
        /\ IF ~(\E c \in Range(l1.children) : c.id = l2.id) \/ ~keywordMap.some \/ ~generationModel
           THEN Render(isLsiLoading, lsiRequests)
           ELSE Render([isLsiLoading EXCEPT ![l2.id] = TRUE],
                       lsiRequests (+) SetToBag({[level1Id |-> l1.id, level2Id |-> l2.id, live |-> TRUE]}))

\* finally { setIsLsiLoading(false) } of the call that issued request r
SettleFlag(r) ==
    IF r.live THEN [isLsiLoading EXCEPT ![r.level2Id] = FALSE] ELSE isLsiLoading

\* the tree holds the Level1 node of request r and, under it, its Level2 node
TargetIn(km, r) ==
    /\ km.some
    /\ \E l1 \in L1Nodes(km.val) :
          l1.id = r.level1Id /\ \E l2 \in Range(l1.children) : l2.id = r.level2Id

\* variant of LsiResolveWith that reports a reply whose target is gone
LsiResolveWith_ReportStale(r, newLsis) ==
    /\ keywordMap' = mergeLsi(keywordMap, r.level1Id, r.level2Id, newLsis)
    /\ TotalTerms(keywordMap') <= MaxTotalTerms
    /\ error' = IF TargetIn(keywordMap, r) THEN error ELSE Some(GenerationError)
    /\ UNCHANGED <<selectedKeywords, filters, expandedL1Nodes, isLoading, generationModel,
                   mapBeforeGenerate, trVars, saveVars>>
    /\ Render(SettleFlag(r), lsiRequests (-) SetToBag({r}))

\* generateLsiForNode resolved with the list of strings newLsis for request r
LsiResolveWith(r, newLsis) ==
    /\ keywordMap' = mergeLsi(keywordMap, r.level1Id, r.level2Id, newLsis)
    /\ TotalTerms(keywordMap') <= MaxTotalTerms
    /\ UNCHANGED <<selectedKeywords, filters, expandedL1Nodes, isLoading, generationModel,
                   error, mapBeforeGenerate, trVars, saveVars>>
    /\ Render(SettleFlag(r), lsiRequests (-) SetToBag({r}))

LsiResolve ==
    \E r \in DOMAIN lsiRequests : \E newLsis \in Candidates : LsiResolveWith(r, newLsis)

\* generateLsiForNode threw for request r (the call was rejected, or the reply
\* is not an array of strings)
LsiRejectOf(r) ==
    /\ UNCHANGED <<keywordMap, selectedKeywords, filters, expandedL1Nodes, isLoading, generationModel,
                   error, mapBeforeGenerate, trVars, saveVars>>
    /\ Render(SettleFlag(r), lsiRequests (-) SetToBag({r}))

LsiReject ==
    \E r \in DOMAIN lsiRequests : LsiRejectOf(r)

Next ==
    \/ SelectL1
    \/ SelectL2
    \/ SelectLsi
    \/ SetFilters
    \/ handleToggleExpand
    \/ LsiGenerationStart
    \/ LsiReject
    \/ LsiResolve
    \/ GenerateStart
    \/ GenerateSucceed
    \/ GenerateFail

Spec == Init /\ [][Next]_vars

\* ======================================================================
\* Properties
\* ======================================================================
ChildIds(node) == { c.id : c \in Range(getChildren(node)) }

\* the Level2 and LsiTerm identifiers below a Level1 node
DescendantIds(l1) ==
    { c.id : c \in Range(l1.children) }
    \cup UNION { { t.id : t \in Range(c.lsi) } : c \in Range(l1.children) }

\* the tree without the isNew annotations
Plain(km) ==
    [i \in 1..Len(km) |-> [km[i] EXCEPT !.children =
        [j \in 1..Len(@) |-> [@[j] EXCEPT !.lsi =
            [k \in 1..Len(@) |-> [id |-> @[k].id, text |-> @[k].text]]]]]]

\* the tree holds exactly the nodes the tree builder produced: no augmentation
\* has added a term since
FreshTree ==
    keywordMap.some /\ \E raw \in RawMaps : Plain(Tree) = Plain(transformToRenderableMap(raw))

\* C1: in every reachable state no Level1 or Level2 identifier is in the
\* SelectionSet while the identifier of one of its direct children is absent.
C1_ParentImpliesChildren ==
    keywordMap.some =>
        /\ \A n \in L1Nodes(Tree) :
              Truthy(selectedKeywords, n.id) => \A k \in ChildIds(n) : Truthy(selectedKeywords, k)
        /\ \A n \in L2Nodes(Tree) :
              Truthy(selectedKeywords, n.id) => \A k \in ChildIds(n) : Truthy(selectedKeywords, k)

\* C2 (as stated): on a built tree every Level2 node is in the SelectionSet
\* iff all of its terms are, and every Level1 node iff all of its Level2
\* children are.
C2_UpwardIffAllNodes ==
    FreshTree =>
        /\ \A n \in L2Nodes(Tree) :
              Truthy(selectedKeywords, n.id) <=> \A k \in ChildIds(n) : Truthy(selectedKeywords, k)
        /\ \A n \in L1Nodes(Tree) :
              Truthy(selectedKeywords, n.id) <=> \A k \in ChildIds(n) : Truthy(selectedKeywords, k)

\* C2 (amended): on a built tree every Level2 node that has at least one term
\* is in the SelectionSet iff all of its terms are, and every Level1 node that
\* has at least one Level2 child is in it iff all of its Level2 children are.
C2_UpwardIffNonEmpty ==
    FreshTree =>
        /\ \A n \in L2Nodes(Tree) : ChildIds(n) # {} =>
              (Truthy(selectedKeywords, n.id) <=> \A k \in ChildIds(n) : Truthy(selectedKeywords, k))
        /\ \A n \in L1Nodes(Tree) : ChildIds(n) # {} =>
              (Truthy(selectedKeywords, n.id) <=> \A k \in ChildIds(n) : Truthy(selectedKeywords, k))

\* a built tree in which a term toggle has selected a Level2 node through the
\* upward cascade while its Level1 parent stays out (a sibling is unselected)
C2_Witness ==
    /\ FreshTree
    /\ \E l1 \in L1Nodes(Tree) : \E l2 \in Range(l1.children) :
          /\ ChildIds(l2) # {}
          /\ Truthy(selectedKeywords, l2.id)
          /\ \A k \in ChildIds(l2) : Truthy(selectedKeywords, k)
          /\ ~Truthy(selectedKeywords, l1.id)
          /\ \E k \in ChildIds(l1) : ~Truthy(selectedKeywords, k)

\* membership of every identifier outside the set ks is the same in s and t
SameOutside(s, t, ks) ==
    \A k \in (DOMAIN s \cup DOMAIN t \cup AllIds(Tree)) \ ks : Truthy(s, k) <=> Truthy(t, k)

AllIn(sel, ks) == \A k \in ks : Truthy(sel, k)
NoneIn(sel, ks) == \A k \in ks : k \notin DOMAIN sel

\* C3: toggle(id, true) on a Level1 node puts the node and every descendant
\* into the SelectionSet and toggle(id, false) removes them all; on a Level2
\* node the same holds for the node and its terms; identifiers outside the
\* toggled subtree and its ancestors keep their membership.
C3_DownwardCascade ==
    keywordMap.some =>
        \A l1 \in L1Nodes(Tree) :
            /\ LET sub == {l1.id} \cup DescendantIds(l1) IN
               /\ AllIn(toggle(selectedKeywords, l1.id, TRUE), sub)
               /\ NoneIn(toggle(selectedKeywords, l1.id, FALSE), sub)
               /\ \A v \in BOOLEAN :
                     SameOutside(selectedKeywords, toggle(selectedKeywords, l1.id, v), sub)
            /\ \A l2 \in Range(l1.children) :
                 LET sub == {l2.id} \cup ChildIds(l2) IN
                 /\ AllIn(toggle(selectedKeywords, l2.id, TRUE), sub)
                 /\ NoneIn(toggle(selectedKeywords, l2.id, FALSE), sub)
                 /\ \A v \in BOOLEAN :
                       SameOutside(selectedKeywords, toggle(selectedKeywords, l2.id, v),
                                   sub \cup {l1.id})

\* a Level1 node with a Level2 child that has a term is selected together
\* with all of its descendants, next to another Level1 node that is not
C3_Witness ==
    /\ keywordMap.some
    /\ \E l1 \in L1Nodes(Tree) :
          /\ \E l2 \in Range(l1.children) : ChildIds(l2) # {}
          /\ AllIn(selectedKeywords, {l1.id} \cup DescendantIds(l1))
          /\ \E other \in L1Nodes(Tree) : other.id # l1.id /\ ~Truthy(selectedKeywords, other.id)

\* C4: applying toggle(n, v) twice in a row yields the same SelectionSet as
\* applying it once, for every node n, value v and reachable SelectionSet.
C4_ToggleIdempotent ==
    keywordMap.some =>
        \A id \in AllIds(Tree) : \A v \in BOOLEAN :
            toggle(toggle(selectedKeywords, id, v), id, v) = toggle(selectedKeywords, id, v)

\* a partially selected Level1 node: toggling any of its nodes changes the set
C4_Witness ==
    /\ keywordMap.some
    /\ \E l1 \in L1Nodes(Tree) :
          /\ ~Truthy(selectedKeywords, l1.id)
          /\ \E k \in DescendantIds(l1) : Truthy(selectedKeywords, k)
          /\ toggle(selectedKeywords, l1.id, TRUE) # selectedKeywords
          /\ toggle(selectedKeywords, l1.id, FALSE) # selectedKeywords

\* C5: the stored SelectionSet never holds an entry whose value is false, and
\* when no node of the tree is selected it has no entries at all.
C5_Sparse ==
    /\ \A k \in DOMAIN selectedKeywords : selectedKeywords[k]
    /\ (keywordMap.some /\ \A id \in AllIds(Tree) : ~Truthy(selectedKeywords, id))
          => DOMAIN selectedKeywords = {}

\* a Level2 node with a selected and an unselected term: a term was switched
\* off, or never on, and neither it nor the parent has an entry
C5_Witness ==
    /\ keywordMap.some
    /\ \E l2 \in L2Nodes(Tree) :
          /\ \E k \in ChildIds(l2) : Truthy(selectedKeywords, k)
          /\ \E k \in ChildIds(l2) : k \notin DOMAIN selectedKeywords
          /\ l2.id \notin DOMAIN selectedKeywords

\* the underlying Level1 / Level2 nodes with a given identifier
L1ById(id) == { n \in L1Nodes(Tree) : n.id = id }
L2ById(km, id) == { n \in L2Nodes(km) : n.id = id }

\* the tri-state the claim prescribes for identifier id with descendants desc
Prescribed(id, desc) ==
    [isChecked |-> Truthy(selectedKeywords, id),
     isIndeterminate |-> ~Truthy(selectedKeywords, id)
                         /\ \E d \in desc : Truthy(selectedKeywords, d)]

\* C6: every rendered Level1 and Level2 checkbox is checked exactly when the
\* node is in the SelectionSet, indeterminate exactly when it is absent but one
\* of its descendants in the tree is present, and unchecked otherwise.
C6_TriStateShown ==
    /\ \A l1 \in RenderedL1(keywordMap, filters, isLoading) :
          \A u \in L1ById(l1.id) :
              L1Checkbox(l1, selectedKeywords) = Prescribed(l1.id, DescendantIds(u))
    /\ \A l2 \in RenderedL2(keywordMap, filters, expandedL1Nodes, isLoading) :
          \A u \in L2ById(Tree, l2.id) :
              L2Checkbox(l2, selectedKeywords) = Prescribed(l2.id, ChildIds(u))

NoDuplicateTexts(lsi) ==
    \A p \in 1..Len(lsi) : \A q \in 1..Len(lsi) : p # q => lsi[p].text # lsi[q].text

\* (C7, C8 and C10 look at the steps that settle a request; every such step
\* takes the request out of lsiRequests, which the first test of each formula
\* uses to skip all other steps.)

\* C7: after a merge into Level2 node n, for any candidate list, the term
\* texts of n hold no duplicate, and every term n had before is still on n
\* with the same identifier and text.
C7_AugmentDedup ==
    [][ lsiRequests' # lsiRequests =>
        \A r \in DOMAIN lsiRequests : \A newLsis \in Candidates :
          LsiResolveWith(r, newLsis) =>
            \A old \in L2ById(Tree, r.level2Id) : \A new \in L2ById(keywordMap'.val, r.level2Id) :
                /\ NoDuplicateTexts(new.lsi)
                /\ \A t \in Range(old.lsi) :
                      \E u \in Range(new.lsi) : u.id = t.id /\ u.text = t.text ]_vars

\* the candidates, in order, whose text is not in texts
RECURSIVE Surviving(_, _)
Surviving(cands, texts) ==
    IF cands = <<>> THEN <<>>
    ELSE (IF Head(cands) \in texts THEN <<>> ELSE <<Head(cands)>>)
         \o Surviving(Tail(cands), texts)

\* C8: a merge into a Level2 node holding c terms appends the k-th surviving
\* candidate (k from 0) after the existing terms with identifier
\* {nodeId}-lsi-{c + k} and isNew = true, and leaves every pre-existing term
\* of the node with isNew = false.
C8_AppendSequentialIds ==
    [][ lsiRequests' # lsiRequests =>
        \A r \in DOMAIN lsiRequests : \A newLsis \in Candidates :
          LsiResolveWith(r, newLsis) =>
            \A old \in L2ById(Tree, r.level2Id) : \A new \in L2ById(keywordMap'.val, r.level2Id) :
                LET c == Len(old.lsi)
                    surv == Surviving(newLsis, { t.text : t \in Range(old.lsi) })
                IN /\ Len(new.lsi) = c + Len(surv)
                   /\ \A k \in 0..(Len(surv) - 1) :
                         new.lsi[c + k + 1] = [id |-> old.id \o <<"lsi", c + k>>,
                                               text |-> surv[k + 1],
                                               isNew |-> IsNewTrue]
                   /\ \A n \in 1..c :
                         new.lsi[n] = [id |-> old.lsi[n].id, text |-> old.lsi[n].text,
                                       isNew |-> IsNewFalse] ]_vars

\* a node that held a term before a merge and got one appended: the old term
\* is not new, the appended one is and carries the next index
C8_Witness ==
    /\ keywordMap.some
    /\ \E l2 \in L2Nodes(Tree) :
          /\ Len(l2.lsi) >= 2
          /\ l2.lsi[1].isNew = IsNewFalse
          /\ l2.lsi[Len(l2.lsi)].isNew = IsNewTrue
          /\ l2.lsi[Len(l2.lsi)].id = l2.id \o <<"lsi", Len(l2.lsi) - 1>>

\* number of outstanding augmentation requests for Level2 identifier id
Outstanding(id) ==
    BagCardinality([r \in { x \in DOMAIN lsiRequests : x.level2Id = id } |-> lsiRequests[r]])

\* C9: at most one augmentation request is outstanding for a given Level2
\* node at any time.
C9_OneRequestPerNode ==
    \A r \in DOMAIN lsiRequests : Outstanding(r.level2Id) <= 1

\* C10: when the request for node n is rejected (or its reply is not a list of
\* strings) the tree and the SelectionSet stay as they are and the in-flight
\* flag of n is cleared.
C10_RejectLeavesState ==
    [][ lsiRequests' # lsiRequests =>
        \A r \in DOMAIN lsiRequests :
          LsiRejectOf(r) =>
            /\ keywordMap' = keywordMap
            /\ selectedKeywords' = selectedKeywords
            /\ (r.level2Id \in DOMAIN isLsiLoading' => ~isLsiLoading'[r.level2Id]) ]_vars

\* C20: when a generation call fails, the tree is the one that was there
\* before the call was started (null if there was none) and an error message
\* is set.
C20_FailRestoresTree ==
    [][ GenerateFail => (keywordMap' = mapBeforeGenerate /\ error'.some) ]_vars


\* ------------------------------------------------------------ generated tree on screen
\* the state right after a successful generation of one of maps, with the
\* FilterBar set to one of flts and AppContext holding one of projs
InitGenerated(maps, flts, projs) ==
    \E result \in maps :
        LET renderableMap == transformToRenderableMap(result) IN
        /\ keywordMap = Some(renderableMap)
        /\ expandedL1Nodes = Some([id \in L1Ids(renderableMap) |-> TRUE])
        /\ generationModel = TRUE
        /\ selectedKeywords = EmptySel
        /\ filters \in flts
        /\ isLoading = FALSE
        /\ isLsiLoading = [id \in MountedL2(keywordMap, filters, expandedL1Nodes, FALSE) |-> FALSE]
        /\ lsiRequests = EmptyBag
        /\ error = Null
        /\ mapBeforeGenerate = Null
        /\ translatingNodeId = Null
        /\ translateRequests = EmptyBag
        /\ isSaveModalOpen = FALSE
        /\ subProjectName = <<>>
        /\ parentProjectId = NoProject
        /\ newParentProjectName = <<>>
        /\ saveCall = Null
        /\ alertMessage = NoAlert
        /\ projects \in projs
        /\ dbProjects = projects
        /\ keywordLibrary = EmptyBag

\* ------------------------------------------------------------ translation
\* disabled and isLoading props of a Button: it reacts to a click only when
\* neither is set
ButtonClickable(disabled, loading) == ~disabled /\ ButtonEnabled(loading)

\* isAnyChildSelected of KeywordMapNode
isAnyChildSelected(level1Id, sel) ==
    \E key \in DOMAIN sel : KeyStartsWith(key, level1Id) /\ sel[key]

\* nodesToTranslate: the selected nodes of the Level1 subtree with their text
nodesToTranslateOf(level1Node, sel) ==
    (IF Truthy(sel, level1Node.id)
     THEN {[id |-> level1Node.id, text |-> level1Node.keyword]} ELSE {})
    \cup { [id |-> l2.id, text |-> l2.keyword] :
             l2 \in { c \in Range(level1Node.children) : Truthy(sel, c.id) } }
    \cup UNION { { [id |-> t.id, text |-> t.text] :
                     t \in { u \in Range(l2.lsi) : Truthy(sel, u.id) } }
                 : l2 \in Range(level1Node.children) }

\* what translateBatch gives for a text it translated
TranslationOf(text) == <<"zh", text>>

TranslationError == "translation failed"

MaxTranslating == 2

\* handleTranslateNode up to the await (or to its end when it returns early)
handleTranslateNode ==
    \E l1 \in RenderedL1(keywordMap, filters, isLoading) :
        /\ BagCardinality(translateRequests) < MaxTranslating
        /\ ButtonClickable(translatingNodeId = Some(l1.id)
                             \/ ~isAnyChildSelected(l1.id, selectedKeywords),
                           translatingNodeId = Some(l1.id))
        /\ generationModel /\ keywordMap.some
        /\ LET found == { n \in L1Nodes(Tree) : n.id = l1.id }
               nodesToTranslate ==
                   IF found = {} THEN {}
                   ELSE nodesToTranslateOf(CHOOSE n \in found : TRUE, selectedKeywords)
           IN IF nodesToTranslate = {}
              THEN /\ translatingNodeId' = Null
                   /\ UNCHANGED translateRequests
              ELSE /\ translatingNodeId' = Some(l1.id)
                   /\ translateRequests' = translateRequests
                         (+) SetToBag({[level1Id |-> l1.id, nodes |-> nodesToTranslate]})
        /\ UNCHANGED <<keywordMap, selectedKeywords, filters, expandedL1Nodes, isLoading,
                       generationModel, isLsiLoading, lsiRequests, error, mapBeforeGenerate,
                       translations, saveVars>>

\* translateBatch resolved for request r with the texts of done translated
TranslateResolveWith(r, done) ==
    LET newTranslations ==
            [id \in { n.id : n \in { x \in r.nodes : x.text \in done } } |->
                TranslationOf((CHOOSE x \in r.nodes : x.id = id).text)]
    IN /\ translations' = [id \in DOMAIN translations \cup DOMAIN newTranslations |->
                             IF id \in DOMAIN newTranslations THEN newTranslations[id]
                             ELSE translations[id]]
       /\ translatingNodeId' = Null
       /\ translateRequests' = translateRequests (-) SetToBag({r})
       /\ UNCHANGED <<keywordMap, selectedKeywords, filters, expandedL1Nodes, isLoading,
                      generationModel, isLsiLoading, lsiRequests, error, mapBeforeGenerate,
                      saveVars>>

\* the reply translates every text asked for, or none of them
TranslateResolve ==
    \E r \in DOMAIN translateRequests :
        \E done \in { { x.text : x \in r.nodes }, {} } : TranslateResolveWith(r, done)

\* translateBatch threw
TranslateReject ==
    \E r \in DOMAIN translateRequests :
        /\ error' = Some(TranslationError)
        /\ translatingNodeId' = Null
        /\ translateRequests' = translateRequests (-) SetToBag({r})
        /\ UNCHANGED <<keywordMap, selectedKeywords, filters, expandedL1Nodes, isLoading,
                       generationModel, isLsiLoading, lsiRequests, mapBeforeGenerate,
                       translations, saveVars>>

\* ------------------------------------------------------------ save dialog
MaxSaved == 1
MaxProjects == 2

\* identifiers the persistence service knows projects by ("proj-" + Date.now())
ProjectIdOf(n) ==
    CASE n = 1 -> "proj-1"
      [] n = 2 -> "proj-2"
      [] n = 3 -> "proj-3"
      [] OTHER -> "proj-4"

\* names typed into the sub-project field
DialogNames == { <<>>, <<" ">>, <<"X">> }

\* names typed into the new-project field
NewProjectNames == { <<>>, <<" ">>, <<"P">> }

\* `${firstSelectedL1.keyword} - ${firstSelectedL1.type}`
defaultSubProjectNameOf(km, sel) ==
    LET hits == { i \in 1..Len(km) : someKeyStartsWith(sel, km[i].id) }
    IN IF hits = {} THEN <<>>
       ELSE LET i == CHOOSE x \in hits : \A y \in hits : x <= y
            IN <<km[i].keyword, " ", "-", " ", km[i].type>>

\* the button that opens the dialog is rendered while selectionCount > 0
handleOpenSaveModal ==
    /\ DOMAIN selectedKeywords # {}
    /\ ~isSaveModalOpen
    /\ subProjectName' = IF keywordMap.some
                         THEN defaultSubProjectNameOf(Tree, selectedKeywords) ELSE <<>>
    /\ parentProjectId' = IF Len(projects) > 0 THEN projects[1] ELSE NoProject
    /\ newParentProjectName' = <<>>
    /\ isSaveModalOpen' = TRUE
    /\ UNCHANGED <<keywordMap, selectedKeywords, filters, expandedL1Nodes, isLoading,
                   generationModel, isLsiLoading, lsiRequests, error, mapBeforeGenerate,
                   trVars, projects, keywordLibrary, saveCall, dbProjects, alertMessage>>

\* Modal onClose and the cancel button
CloseSaveModal ==
    /\ isSaveModalOpen
    /\ isSaveModalOpen' = FALSE
    /\ UNCHANGED <<keywordMap, selectedKeywords, filters, expandedL1Nodes, isLoading,
                   generationModel, isLsiLoading, lsiRequests, error, mapBeforeGenerate,
                   trVars, subProjectName, parentProjectId, newParentProjectName,
                   projects, keywordLibrary, saveCall, dbProjects, alertMessage>>

\* the three inputs of the dialog
SetSubProjectNameFrom(names) ==
    /\ isSaveModalOpen
    /\ \E n \in names : subProjectName' = n
    /\ subProjectName' # subProjectName
    /\ UNCHANGED <<keywordMap, selectedKeywords, filters, expandedL1Nodes, isLoading,
                   generationModel, isLsiLoading, lsiRequests, error, mapBeforeGenerate,
                   trVars, isSaveModalOpen, parentProjectId, newParentProjectName,
                   projects, keywordLibrary, saveCall, dbProjects, alertMessage>>

SetSubProjectName == SetSubProjectNameFrom(DialogNames)

SetParentProjectId ==
    /\ isSaveModalOpen
    /\ \E v \in Range(projects) \cup {CreateNew} : parentProjectId' = v
    /\ parentProjectId' # parentProjectId
    /\ UNCHANGED <<keywordMap, selectedKeywords, filters, expandedL1Nodes, isLoading,
                   generationModel, isLsiLoading, lsiRequests, error, mapBeforeGenerate,
                   trVars, isSaveModalOpen, subProjectName, newParentProjectName,
                   projects, keywordLibrary, saveCall, dbProjects, alertMessage>>

SetNewParentProjectName ==
    /\ isSaveModalOpen
    /\ parentProjectId = CreateNew
    /\ \E n \in NewProjectNames : newParentProjectName' = n
    /\ newParentProjectName' # newParentProjectName
    /\ UNCHANGED <<keywordMap, selectedKeywords, filters, expandedL1Nodes, isLoading,
                   generationModel, isLsiLoading, lsiRequests, error, mapBeforeGenerate,
                   trVars, isSaveModalOpen, subProjectName, parentProjectId,
                   projects, keywordLibrary, saveCall, dbProjects, alertMessage>>

\* variant of isSaveDisabled that does not look at the sub-project name
isSaveDisabled_IgnoreName ==
    IF parentProjectId = CreateNew THEN Trim(newParentProjectName) = <<>>
    ELSE parentProjectId = NoProject

isSaveDisabled ==
    IF Trim(subProjectName) = <<>> THEN TRUE
    ELSE IF parentProjectId = CreateNew THEN Trim(newParentProjectName) = <<>>
    ELSE parentProjectId = NoProject

\* ------------------------------------------------------------ handleSaveSubProject
\* the values a running handleSaveSubProject call reads: those of the render
\* in which the button was clicked
SaveClosure ==
    [subProjectName |-> subProjectName, keywordMap |-> keywordMap,
     selectedKeywords |-> selectedKeywords, translations |-> translations,
     keywordLibrary |-> keywordLibrary]

NoRecord ==
    [name |-> <<>>, parentProjectId |-> NoProject, keywords |-> <<>>,
     translations |-> EmptyTranslations]

\* newSubProject (the fields the model follows)
newSubProjectOf(c, finalParentProjectId) ==
    [name |-> finalSubProjectNameOf(c.subProjectName, c.keywordLibrary, finalParentProjectId),
     parentProjectId |-> finalParentProjectId,
     keywords |-> savedHierarchyOf(c.keywordMap, c.selectedKeywords),
     translations |-> savedTranslationsOf(c.translations,
                                          savedNodeIdsOf(c.keywordMap, c.selectedKeywords))]

\* from the check of the names to the insert into keyword_library
ValidateAndInsert(c, finalParentProjectId) ==
    IF Trim(c.subProjectName) = <<>> \/ finalParentProjectId = NoProject
    THEN /\ alertMessage' = AlertNeedName
         /\ saveCall' = Null
    ELSE IF Len(savedHierarchyOf(c.keywordMap, c.selectedKeywords)) = 0
    THEN /\ alertMessage' = AlertNoKeywords
         /\ saveCall' = Null
    ELSE /\ saveCall' = Some([table |-> "keyword_library", closure |-> c,
                              record |-> newSubProjectOf(c, finalParentProjectId)])
         /\ UNCHANGED alertMessage

\* a click on the save button of the dialog, up to the first await
SaveClickUpTo(maxSaved) ==
    /\ isSaveModalOpen
    /\ ButtonClickable(isSaveDisabled, FALSE)
    /\ ~saveCall.some
    /\ BagCardinality(keywordLibrary) < maxSaved
    /\ IF parentProjectId = CreateNew
       THEN IF Trim(newParentProjectName) = <<>>
            THEN /\ alertMessage' = AlertNeedProjectName
                 /\ saveCall' = Null
            ELSE /\ Len(dbProjects) < MaxProjects
                 /\ saveCall' = Some([table |-> "projects", closure |-> SaveClosure,
                                      record |-> NoRecord])
                 /\ UNCHANGED alertMessage
       ELSE ValidateAndInsert(SaveClosure, parentProjectId)
    /\ UNCHANGED <<keywordMap, selectedKeywords, filters, expandedL1Nodes, isLoading,
                   generationModel, isLsiLoading, lsiRequests, error, mapBeforeGenerate,
                   trVars, isSaveModalOpen, subProjectName, parentProjectId,
                   newParentProjectName, projects, keywordLibrary, dbProjects>>

handleSaveSubProject == SaveClickUpTo(MaxSaved)

\* the insert into projects succeeded: data.id is the parent
ProjectInsertResolved ==
    /\ saveCall.some /\ saveCall.val.table = "projects"
    /\ dbProjects' = Append(dbProjects, ProjectIdOf(Len(dbProjects) + 1))
    /\ ValidateAndInsert(saveCall.val.closure, ProjectIdOf(Len(dbProjects) + 1))
    /\ UNCHANGED <<keywordMap, selectedKeywords, filters, expandedL1Nodes, isLoading,
                   generationModel, isLsiLoading, lsiRequests, error, mapBeforeGenerate,
                   trVars, isSaveModalOpen, subProjectName, parentProjectId,
                   newParentProjectName, projects, keywordLibrary>>

\* variant of SaveRejected that also resets the dialog as a successful save
\* does
SaveRejected_ResetDialog ==
    /\ saveCall.some
    /\ alertMessage' = AlertSaveFailed
    /\ saveCall' = Null
    /\ isSaveModalOpen' = FALSE
    /\ subProjectName' = <<>>
    /\ parentProjectId' = NoProject
    /\ newParentProjectName' = <<>>
    /\ selectedKeywords' = EmptySel
    /\ UNCHANGED <<keywordMap, filters, expandedL1Nodes, isLoading,
                   generationModel, isLsiLoading, lsiRequests, error, mapBeforeGenerate,
                   trVars, projects, keywordLibrary, dbProjects>>

\* either insert came back with an error: throw, caught by the alert
SaveRejected ==
    /\ saveCall.some
    /\ alertMessage' = AlertSaveFailed
    /\ saveCall' = Null
    /\ UNCHANGED <<keywordMap, selectedKeywords, filters, expandedL1Nodes, isLoading,
                   generationModel, isLsiLoading, lsiRequests, error, mapBeforeGenerate,
                   trVars, isSaveModalOpen, subProjectName, parentProjectId,
                   newParentProjectName, projects, keywordLibrary, dbProjects>>

\* the insert into keyword_library succeeded: fetchData, then the resets
SubProjectInsertResolved ==
    /\ saveCall.some /\ saveCall.val.table = "keyword_library"
    /\ keywordLibrary' = keywordLibrary (+)
          SetToBag({[name |-> saveCall.val.record.name,
                     parentProjectId |-> saveCall.val.record.parentProjectId]})
    /\ projects' = dbProjects
    /\ isSaveModalOpen' = FALSE
    /\ subProjectName' = <<>>
    /\ parentProjectId' = NoProject
    /\ newParentProjectName' = <<>>
    /\ selectedKeywords' = EmptySel
    /\ alertMessage' = AlertSaved
    /\ saveCall' = Null
    /\ UNCHANGED <<keywordMap, filters, expandedL1Nodes, isLoading, generationModel,
                   isLsiLoading, lsiRequests, error, mapBeforeGenerate, trVars, dbProjects>>

\* ------------------------------------------------------------ saving a selection
SaveMaps == { <<RawB>> }

\* the overlay after every node of the tree was selected and translated
FullOverlay(km) ==
    [id \in AllIds(km) |->
        LET l1 == { n \in L1Nodes(km) : n.id = id }
            l2 == { n \in L2Nodes(km) : n.id = id }
            t == { n \in LsiNodes(km) : n.id = id }
        IN IF l1 # {} THEN TranslationOf((CHOOSE n \in l1 : TRUE).keyword)
           ELSE IF l2 # {} THEN TranslationOf((CHOOSE n \in l2 : TRUE).keyword)
           ELSE TranslationOf((CHOOSE n \in t : TRUE).text)]

\* a generated tree on screen, with or without a project to save under
InitSave ==
    /\ InitGenerated(SaveMaps, {NoFilter}, { <<>>, <<ProjectIdOf(1)>> })
    /\ translations = EmptyTranslations

\* an open Modal covers the page: the checkboxes behind it take no clicks
PageClickable(modalOpen) == ~modalOpen

SelectL1OnPage == PageClickable(isSaveModalOpen) /\ SelectL1
SelectL2OnPage == PageClickable(isSaveModalOpen) /\ SelectL2
SelectLsiOnPage == PageClickable(isSaveModalOpen) /\ SelectLsi

NextSave ==
    \/ SelectL1OnPage
    \/ SelectL2OnPage
    \/ SelectLsiOnPage
    \/ handleOpenSaveModal
    \/ CloseSaveModal
    \/ SetSubProjectName
    \/ SetParentProjectId
    \/ SetNewParentProjectName
    \/ handleSaveSubProject
    \/ ProjectInsertResolved
    \/ SaveRejected
    \/ SubProjectInsertResolved

SpecSave == InitSave /\ [][NextSave]_vars

\* ------------------------------------------------------------ filtered view
InitFilter ==
    /\ InitGenerated(FilterMaps, {NoFilter}, {<<>>})
    /\ translations = EmptyTranslations

SetAnyFilters == \E f \in AllFilters : SetFiltersTo(f)

NextFilter ==
    \/ SetAnyFilters
    \/ SelectL1
    \/ SelectL2
    \/ SelectLsi

SpecFilter == InitFilter /\ [][NextFilter]_vars

\* C11: a change of the filter criteria changes neither the tree nor the
\* SelectionSet, and the view computed with empty criteria is the tree itself.
C11_FilterNonMutation ==
    [][ filters' # filters =>
          /\ keywordMap' = keywordMap
          /\ selectedKeywords' = selectedKeywords
          /\ filteredKeywordMap(keywordMap'.val, NoFilter) = keywordMap.val ]_vars

\* a filter that hides part of the tree is active while nodes are selected
C11_Witness ==
    /\ filters # NoFilter
    /\ selectedKeywords # EmptySel
    /\ filteredKeywordMap(Tree, filters) # Tree

\* what the claim asks of a Level1 node of the view under criteria f
MatchesL1(l1, f) ==
    /\ (f.category = "" \/ l1.type = f.category)
    /\ (f.pageType = "" \/ PAGE_TYPE_MAP(l1.pageType) = f.pageType)
    /\ Len(l1.children) > 0

\* C12: for every criteria, empty ones included, a Level1 node is in the
\* filtered view only if its category and normalized page kind match and it
\* keeps at least one Level2 child.
C12_ViewOnlyMatching ==
    \A f \in AllFilters :
        \A l1 \in Range(filteredKeywordMap(Tree, f)) : MatchesL1(l1, f)

\* C12 as the code has it: the three conditions hold under every criteria
\* with at least one non-empty field; with empty criteria the view is the
\* whole tree.
C12_ViewOnlyMatchingNonEmpty ==
    \A f \in AllFilters :
        IF f = NoFilter THEN filteredKeywordMap(Tree, f) = Tree
        ELSE \A l1 \in Range(filteredKeywordMap(Tree, f)) : MatchesL1(l1, f)

\* a page-kind filter is active, a node with a legacy label is shown and
\* another node of the tree is not
C12_Witness ==
    /\ filters.pageType # ""
    /\ \E l1 \in Range(filteredKeywordMap(Tree, filters)) : l1.pageType # filters.pageType
    /\ Len(filteredKeywordMap(Tree, filters)) < Len(Tree)

\* ------------------------------------------------------------ save: frame and errors
\* a step of a handleSaveSubProject call
SaveStep ==
    \/ handleSaveSubProject
    \/ ProjectInsertResolved
    \/ SaveRejected
    \/ SubProjectInsertResolved

\* C17: no step of a save, successful or not, changes the live tree or the
\* SelectionSet.
C17_SaveLeavesTreeAndSelection ==
    [][ SaveStep => (keywordMap' = keywordMap /\ selectedKeywords' = selectedKeywords) ]_vars

\* C18: when the insert of the sub-project is rejected, the tree, the
\* SelectionSet, the TranslationOverlay and the inputs of the save dialog stay
\* as they are, and the save can be tried again.
C18_RejectedSaveKeepsState ==
    [][ (saveCall.some /\ saveCall.val.table = "keyword_library" /\ SaveRejected) =>
          /\ keywordMap' = keywordMap
          /\ selectedKeywords' = selectedKeywords
          /\ translations' = translations
          /\ isSaveModalOpen' = isSaveModalOpen
          /\ subProjectName' = subProjectName
          /\ parentProjectId' = parentProjectId
          /\ newParentProjectName' = newParentProjectName
          /\ savedHierarchyOf(keywordMap', selectedKeywords')
                = savedHierarchyOf(keywordMap, selectedKeywords)
          /\ ~saveCall'.some ]_vars

\* a save in the create-new flow got its project inserted and then failed:
\* the dialog is still open with its inputs and the selection is still there
C18_Witness ==
    /\ alertMessage = AlertSaveFailed
    /\ Len(dbProjects) > Len(projects)
    /\ ~saveCall.some
    /\ isSaveModalOpen /\ ~isSaveDisabled
    /\ parentProjectId = CreateNew
    /\ DOMAIN selectedKeywords # {}

\* the inputs of the dialog a save must not go ahead with
InvalidInputs ==
    \/ Trim(subProjectName) = <<>>
    \/ parentProjectId = NoProject
    \/ (parentProjectId = CreateNew /\ Trim(newParentProjectName) = <<>>)

\* C19: with an empty sub-project name, no parent project, or no name for the
\* new project in the create-new flow, no call to the persistence service is
\* started: no insert becomes pending and neither table changes.
C19_InvalidInputsNoCall ==
    [][ (isSaveModalOpen /\ ~saveCall.some /\ InvalidInputs) =>
          /\ ~saveCall'.some
          /\ dbProjects' = dbProjects
          /\ keywordLibrary' = keywordLibrary ]_vars

\* the dialog is open in the create-new flow with a sub-project name and no
\* name for the new project
C19_Witness ==
    /\ isSaveModalOpen /\ ~saveCall.some
    /\ parentProjectId = CreateNew
    /\ Trim(newParentProjectName) = <<>>
    /\ Trim(subProjectName) # <<>>

\* ------------------------------------------------------------ naming saved sub-projects
MaxLineage == 3

\* names typed into the sub-project field, with and without a version suffix
\* and with a blank in front
EnteredNames ==
    { <<"X">>, <<"X", " ", "(Version 2)">>, <<"X", " ", "(Version 3)">>, <<" ", "X">> }

SetEnteredName == SetSubProjectNameFrom(EnteredNames)

SaveNamed == SaveClickUpTo(MaxLineage)

\* a generated tree on screen and two projects to save under
InitNames ==
    /\ InitGenerated(SaveMaps, {NoFilter}, { <<ProjectIdOf(1), ProjectIdOf(2)>> })
    /\ translations = EmptyTranslations

NextNames ==
    \/ SelectL1OnPage
    \/ handleOpenSaveModal
    \/ SetEnteredName
    \/ SetParentProjectId
    \/ SaveNamed
    \/ SubProjectInsertResolved

SpecNames == InitNames /\ [][NextNames]_vars

\* the sub-projects of the library under parent whose name without a version
\* suffix is baseName
StrippedLineageOf(library, parent, baseName) ==
    { sp \in DOMAIN library : sp.parentProjectId = parent /\ StripVersion(sp.name) = baseName }

\* the stored name by the rule: version lineage size + 1 when a member of the
\* lineage has exactly the name, the name as it is otherwise
RuleNameOf(name, library, parent) ==
    LET baseName == StripVersion(name)
        lineage == StrippedLineageOf(library, parent, baseName)
    IN IF \E sp \in lineage : sp.name = name
       THEN baseName \o <<" ", VersionToken(CopiesOf(library, lineage) + 1)>>
       ELSE name

\* the names stored under parent, and whether each is stored once
NamesUnder(library, parent) ==
    { sp.name : sp \in { x \in DOMAIN library : x.parentProjectId = parent } }

StoredOnceUnder(library, parent) ==
    \A sp \in DOMAIN library : sp.parentProjectId = parent => library[sp] = 1

\* a click on save that gets as far as the insert of the sub-project
InsertIssued ==
    /\ ~saveCall.some
    /\ saveCall'.some
    /\ saveCall'.val.table = "keyword_library"

\* the same plain name saved into an empty lineage, a lineage with the name,
\* and a lineage with the name and its second version
ThreeSavesRule ==
    (InsertIssued /\ subProjectName = <<"X">>) =>
        LET stored == IF StoredOnceUnder(keywordLibrary, parentProjectId)
                      THEN NamesUnder(keywordLibrary, parentProjectId)
                      ELSE { <<>> }
        IN
        /\ stored = {} => saveCall'.val.record.name = <<"X">>
        /\ stored = { <<"X">> } => saveCall'.val.record.name = <<"X", " ", "(Version 2)">>
        /\ stored = { <<"X">>, <<"X", " ", "(Version 2)">> }
              => saveCall'.val.record.name = <<"X", " ", "(Version 3)">>

C16_UniqueNames ==
    \A sp \in DOMAIN keywordLibrary : keywordLibrary[sp] = 1

\* ------------------------------------------------------------ pruning a selection
\* a generation result with eleven Level1 entries, of which the second and
\* the last (l1-1 and l1-10) have a Level2 child
RawWide ==
    [i \in 1..11 |->
        IF i \in {2, 11}
        THEN RawL1("W", Traffic, EnArticle, <<RawL2("W1", Decision, <<"a">>)>>)
        ELSE RawL1("V", Comparison, ZhArticle, <<>>)]

DecisionFilter == [category |-> "", pageType |-> "", userBehavior |-> <<"Decision">>]

\* a generated tree on screen, nothing or everything of it translated; the
\* wide tree is shown through the filter that hides its childless entries
InitPrune ==
    /\ \/ InitGenerated({ <<RawA, RawB>> }, {NoFilter}, { <<ProjectIdOf(1)>> })
       \/ InitGenerated({ RawWide }, {DecisionFilter}, { <<ProjectIdOf(1)>> })
    /\ translations \in { EmptyTranslations, FullOverlay(Tree) }

NextPrune ==
    \/ SelectL1OnPage
    \/ SelectL2OnPage
    \/ SelectLsiOnPage
    \/ handleOpenSaveModal
    \/ CloseSaveModal
    \/ handleSaveSubProject
    \/ SubProjectInsertResolved

SpecPrune == InitPrune /\ [][NextPrune]_vars

\* the record a running save hands to the persistence service
InsertPending == saveCall.some /\ saveCall.val.table = "keyword_library"

SavedL1(h) == Range(h)
SavedL2(h) == UNION { Range(l1.children) : l1 \in Range(h) }
SavedLsi(h) == UNION { Range(l2.lsi) : l2 \in SavedL2(h) }
SavedIds(h) ==
    { n.id : n \in SavedL1(h) } \cup { n.id : n \in SavedL2(h) } \cup { n.id : n \in SavedLsi(h) }

\* every saved node sits where the live node with its identifier sits
KeepsPlace(h, km) ==
    \A s1 \in SavedL1(h) : \E l1 \in L1Nodes(km) :
        /\ l1.id = s1.id /\ l1.keyword = s1.keyword
        /\ \A s2 \in Range(s1.children) : \E l2 \in Range(l1.children) :
              /\ l2.id = s2.id /\ l2.keyword = s2.keyword
              /\ \A st \in Range(s2.lsi) : \E t \in Range(l2.lsi) :
                    t.id = st.id /\ t.text = st.text

RetainedAsSelected(h, km, sel) ==
    /\ \A t \in LsiNodes(km) :
          (t.id \in { n.id : n \in SavedLsi(h) }) <=> Truthy(sel, t.id)
    /\ \A l2 \in L2Nodes(km) :
          (l2.id \in { n.id : n \in SavedL2(h) })
             <=> (Truthy(sel, l2.id)
                    \/ \E t \in Range(l2.lsi) : t.id \in { n.id : n \in SavedLsi(h) })
    /\ \A l1 \in L1Nodes(km) :
          (l1.id \in { n.id : n \in SavedL1(h) })
             <=> (Truthy(sel, l1.id)
                    \/ \E l2 \in Range(l1.children) : l2.id \in { n.id : n \in SavedL2(h) })

\* C13: the hierarchy handed to the persistence service holds a term exactly
\* when it is selected, a Level2 node exactly when it is selected or keeps a
\* term, a Level1 node exactly when it is selected or keeps a Level2 node, and
\* every node it holds has the identifier and the place of the live node.
C13_PrunedHierarchy ==
    InsertPending =>
        LET c == saveCall.val.closure
            h == saveCall.val.record.keywords
        IN /\ RetainedAsSelected(h, c.keywordMap.val, c.selectedKeywords)
           /\ KeepsPlace(h, c.keywordMap.val)

\* a save in flight whose hierarchy keeps an unselected Level2 node for its
\* term, drops a term and a Level2 node beside it, and drops a Level1 node
C13_Witness ==
    /\ InsertPending
    /\ LET h == saveCall.val.record.keywords IN
       /\ \E s2 \in SavedL2(h) : ~Truthy(selectedKeywords, s2.id) /\ Len(s2.lsi) > 0
       /\ \E t \in LsiNodes(Tree) : t.id \notin SavedIds(h)
       /\ \E l2 \in L2Nodes(Tree) : l2.id \notin SavedIds(h)
       /\ \E l1 \in L1Nodes(Tree) : l1.id \notin SavedIds(h)

\* C14: every key of the stored translations is the identifier of a node of
\* the stored hierarchy, and its value is the overlay's value for it when the
\* save was started.
C14_TranslationsOfRetained ==
    InsertPending =>
        LET c == saveCall.val.closure
            r == saveCall.val.record
        IN \A k \in DOMAIN r.translations :
              /\ k \in SavedIds(r.keywords)
              /\ k \in DOMAIN c.translations
              /\ r.translations[k] = c.translations[k]

\* a save in flight that stores some entries of the overlay and leaves
\* others out
C14_Witness ==
    /\ InsertPending
    /\ DOMAIN saveCall.val.record.translations # {}
    /\ DOMAIN translations \ DOMAIN saveCall.val.record.translations # {}
    /\ DOMAIN saveCall.val.record.translations = SavedIds(saveCall.val.record.keywords)

\* ------------------------------------------------------------ identifiers and paths
\* childId.split('-') on the identifier text
RECURSIVE SplitDash(_)
SplitDash(text) ==
    IF \A n \in 1..Len(text) : text[n] # "-" THEN <<text>>
    ELSE LET cut == CHOOSE n \in 1..Len(text) :
                        text[n] = "-" /\ \A m \in 1..(n - 1) : text[m] # "-"
         IN <<SubSeq(text, 1, cut - 1)>> \o SplitDash(SubSeq(text, cut + 1, Len(text)))

\* parts.join('-')
RECURSIVE JoinDash(_)
JoinDash(parts) ==
    IF parts = <<>> THEN <<>>
    ELSE IF Len(parts) = 1 THEN parts[1]
    ELSE parts[1] \o <<"-">> \o JoinDash(Tail(parts))

\* getParentId on the identifier text; Null for the null it returns
ParentIdText(text) ==
    LET parts == SplitDash(text)
    IN IF Len(parts) <= 2 THEN Null
       ELSE Some(JoinDash(SubSeq(parts, 1, Len(parts) - 2)))

\* C21: the i-th Level1 node has id l1-{i}, its j-th child l1-{i}-l2-{j}, that
\* child's k-th term l1-{i}-l2-{j}-lsi-{k}; cutting the last two segments of a
\* Level2 or term id gives the id of its parent, and a Level1 id has no parent.
C21_IdsArePaths ==
    keywordMap.some =>
        \A i \in 1..Len(Tree) :
            LET l1 == Tree[i] IN
            /\ l1.id = <<"l1", i - 1>>
            /\ getParentId(l1.id) = <<>>
            /\ ParentIdText(IdString(l1.id)) = Null
            /\ \A j \in 1..Len(l1.children) :
                  LET l2 == l1.children[j] IN
                  /\ l2.id = <<"l1", i - 1, "l2", j - 1>>
                  /\ getParentId(l2.id) = l1.id
                  /\ ParentIdText(IdString(l2.id)) = Some(IdString(l1.id))
                  /\ \A k \in 1..Len(l2.lsi) :
                        LET t == l2.lsi[k] IN
                        /\ t.id = <<"l1", i - 1, "l2", j - 1, "lsi", k - 1>>
                        /\ getParentId(t.id) = l2.id
                        /\ ParentIdText(IdString(t.id)) = Some(IdString(l2.id))

\* a tree that is no longer as it was built: a Level2 node holds two terms,
\* the second appended by a later merge than the first
C21_Witness ==
    /\ keywordMap.some /\ ~FreshTree
    /\ \E l1 \in L1Nodes(Tree) : \E l2 \in Range(l1.children) :
          /\ Len(l2.lsi) = 2
          /\ l2.lsi[1].isNew = IsNewFalse
          /\ l2.lsi[2].isNew = IsNewTrue
          /\ ParentIdText(IdString(l2.lsi[2].id)) = Some(IdString(l2.id))
          /\ ParentIdText(IdString(l2.id)) = Some(IdString(l1.id))

\* ------------------------------------------------------------ tree and selection invariants
\* number of nodes of the tree, counted by position
RECURSIVE NodeCount(_)
NodeCount(km) ==
    IF km = <<>> THEN 0
    ELSE LET l1 == Head(km)
             terms == [j \in 1..Len(l1.children) |-> Len(l1.children[j].lsi)]
             sum[n \in 0..Len(terms)] == IF n = 0 THEN 0 ELSE terms[n] + sum[n - 1]
         IN 1 + Len(l1.children) + sum[Len(terms)] + NodeCount(Tail(km))

\* C27: in every reachable tree all node identifiers are pairwise distinct,
\* whatever the number and the completion order of the merges.
C27_DistinctIds ==
    keywordMap.some =>
        /\ Cardinality(AllIds(Tree)) = NodeCount(Tree)
        /\ \A l2 \in L2Nodes(Tree) :
              \A p \in 1..Len(l2.lsi) : \A q \in 1..Len(l2.lsi) :
                  p # q => l2.lsi[p].id # l2.lsi[q].id

\* two requests for the same Level2 node are outstanding and the node already
\* received a term: whichever reply comes first, both merge into that node
C27_Witness ==
    /\ keywordMap.some
    /\ \E l2 \in L2Nodes(Tree) :
          /\ Outstanding(l2.id) >= 2
          /\ Len(l2.lsi) >= 1
          /\ l2.lsi[Len(l2.lsi)].isNew = IsNewTrue

\* C26: every identifier in the SelectionSet is the identifier of a node of
\* the current tree, and the SelectionSet is empty while the tree is null.
C26_SelectionWithinTree ==
    IF keywordMap.some
    THEN DOMAIN selectedKeywords \subseteq AllIds(Tree)
    ELSE DOMAIN selectedKeywords = {}

\* a generation is running on top of an earlier tree: the tree is null and
\* the SelectionSet is empty
C26_Witness ==
    /\ ~keywordMap.some /\ isLoading
    /\ mapBeforeGenerate.some
    /\ DOMAIN selectedKeywords = {}

\* ------------------------------------------------------------ late replies
\* C24: a reply that arrives when the tree is null or does not hold the target
\* Level1/Level2 identifiers leaves the tree as it is and sets no error; the
\* tree changes only when the target is in it.
C24_StaleReplyDropped ==
    [][ lsiRequests' # lsiRequests =>
        \A r \in DOMAIN lsiRequests : \A newLsis \in Candidates :
          LsiResolveWith(r, newLsis) =>
            /\ ~TargetIn(keywordMap, r) => (keywordMap' = keywordMap /\ error' = error)
            /\ (keywordMap' # keywordMap) =>
                  /\ TargetIn(keywordMap, r)
                  /\ \A l2 \in L2Nodes(Tree) : l2.id # r.level2Id => l2 \in L2Nodes(keywordMap'.val) ]_vars

\* a request is outstanding whose target is not in the tree on screen: the
\* tree was replaced by a smaller one since the request was issued
C24_Witness ==
    /\ keywordMap.some
    /\ \E r \in DOMAIN lsiRequests : ~TargetIn(keywordMap, r)

\* ------------------------------------------------------------ toggles without effect
\* the identifiers below the node with identifier id
DescendantsOf(id) ==
    LET node == findNodeById(id) IN
    IF IsNoNode(node) THEN {}
    ELSE IF isLevel1Node(node) THEN DescendantIds(node)
    ELSE ChildIds(node)

\* C22: toggle(id, true) leaves the SelectionSet as it is when id is in the
\* set, and toggle(id, false) leaves it as it is when neither id nor one of
\* its descendants is in the set.
C22_ToggleAtEffectiveState ==
    keywordMap.some =>
        \A id \in AllIds(Tree) :
            /\ Truthy(selectedKeywords, id)
                  => toggle(selectedKeywords, id, TRUE) = selectedKeywords
            /\ (\A k \in {id} \cup DescendantsOf(id) : ~Truthy(selectedKeywords, k))
                  => toggle(selectedKeywords, id, FALSE) = selectedKeywords

\* the same on a tree that is as the tree builder left it
C22_OnBuiltTree == FreshTree => C22_ToggleAtEffectiveState

\* ------------------------------------------------------------ stage filter
\* the p-th smallest element of the set of indices idx
NthOf(idx, p) == CHOOSE j \in idx : Cardinality({ x \in idx : x <= j }) = p

\* C23: under a Level1 node of the filtered view the Level2 children shown
\* are exactly the children of that node whose stage label begins with the
\* stage prefix, in their order and with their terms; with an empty stage
\* prefix all children are shown.
C23_StagePrefixChildren ==
    \A f \in AllFilters :
        \A shown \in Range(filteredKeywordMap(Tree, f)) :
            \A u \in L1ById(shown.id) :
                LET idx == { j \in 1..Len(u.children) :
                               f.userBehavior = <<>> \/ StartsWith(u.children[j].type, f.userBehavior) }
                IN /\ Len(shown.children) = Cardinality(idx)
                   /\ \A p \in 1..Len(shown.children) :
                         shown.children[p] = u.children[NthOf(idx, p)]

\* the stage filter is set and the view shows a Level1 node with a Level2
\* child that has terms while a sibling of that child is hidden
C23_Witness ==
    /\ filters.userBehavior # <<>>
    /\ \E shown \in Range(filteredKeywordMap(Tree, filters)) :
          \E u \in L1ById(shown.id) :
              /\ Len(shown.children) < Len(u.children)
              /\ \E c \in Range(shown.children) : Len(c.lsi) > 0 /\ c.type # filters.userBehavior

\* ------------------------------------------------------------ replies across generations
\* the page with the filter left empty and every Level1 node left expanded:
\* a Level2Component is unmounted only when a generation takes the tree away,
\* so a request that is not live was issued against a tree that a later
\* generation has replaced
NextRegen ==
    \/ SelectL1
    \/ SelectL2
    \/ SelectLsi
    \/ LsiGenerationStart
    \/ LsiReject
    \/ LsiResolve
    \/ GenerateStart
    \/ GenerateSucceed
    \/ GenerateFail

SpecRegen == Init /\ [][NextRegen]_vars

\* C28: the terms of a reply to a request issued against one generated tree
\* are never appended to a node of a tree built by a later generation.
C28_NoMergeAcrossGenerations ==
    [][ lsiRequests' # lsiRequests =>
        \A r \in DOMAIN lsiRequests : \A newLsis \in Candidates :
          (~r.live /\ LsiResolveWith(r, newLsis)) =>
              TotalTerms(keywordMap') = TotalTerms(keywordMap) ]_vars

\* ------------------------------------------------------------ translating across generations
NextTranslate ==
    \/ SelectL1
    \/ SelectL2
    \/ SelectLsi
    \/ handleTranslateNode
    \/ TranslateResolve
    \/ TranslateReject
    \/ GenerateStart
    \/ GenerateSucceed
    \/ GenerateFail

SpecTranslate == Init /\ [][NextTranslate]_vars

\* C29: every key of the TranslationOverlay is the identifier of a node of the
\* current tree, and the overlay is empty while the tree is null, also when a
\* translation request resolves after a new generation was started.
C29_OverlayWithinTree ==
    IF keywordMap.some
    THEN DOMAIN translations \subseteq AllIds(Tree)
    ELSE DOMAIN translations = {}

\* number of outstanding translation requests for Level1 identifier id
Translating(reqs, id) ==
    BagCardinality([r \in { x \in DOMAIN reqs : x.level1Id = id } |-> reqs[r]])

\* C30: while a translation request for a Level1 node is outstanding, no
\* second request for that node is started.
C30_OneTranslationPerNode ==
    [][ \A r \in DOMAIN translateRequests :
            Translating(translateRequests', r.level1Id)
               <= Translating(translateRequests, r.level1Id) ]_vars

\* ------------------------------------------------------------ between two generations
SessionMaps == { <<RawE>> }

\* a generated tree on screen and a project to save under
InitSession ==
    /\ InitGenerated(SessionMaps, {NoFilter}, { <<ProjectIdOf(1)>> })
    /\ translations = EmptyTranslations

\* service calls the user lets run at a time in a session
MaxSessionCalls == 1

SessionCalls ==
    BagCardinality(lsiRequests) + BagCardinality(translateRequests)
       + (IF saveCall.some THEN 1 ELSE 0)

SetFiltersOnPage == PageClickable(isSaveModalOpen) /\ SetFilters

LsiGenerationStartOnPage ==
    /\ PageClickable(isSaveModalOpen)
    /\ SessionCalls < MaxSessionCalls
    /\ LsiGenerationStart

TranslateOnPage ==
    /\ PageClickable(isSaveModalOpen)
    /\ SessionCalls < MaxSessionCalls
    /\ handleTranslateNode

SaveInSession ==
    /\ SessionCalls < MaxSessionCalls
    /\ handleSaveSubProject

NextSession ==
    \/ SelectL1OnPage
    \/ SetFiltersOnPage
    \/ LsiGenerationStartOnPage
    \/ LsiResolve
    \/ LsiReject
    \/ TranslateOnPage
    \/ TranslateResolve
    \/ TranslateReject
    \/ handleOpenSaveModal
    \/ SaveInSession
    \/ SaveRejected
    \/ SubProjectInsertResolved

SpecSession == InitSession /\ [][NextSession]_vars

\* the trees differ at most in the term list of one Level2 node
DifferInOneTermList(old, new) ==
    /\ Len(new) = Len(old)
    /\ \A i \in 1..Len(old) :
          /\ [new[i] EXCEPT !.children = <<>>] = [old[i] EXCEPT !.children = <<>>]
          /\ Len(new[i].children) = Len(old[i].children)
          /\ \A j \in 1..Len(old[i].children) :
                [new[i].children[j] EXCEPT !.lsi = <<>>] = [old[i].children[j] EXCEPT !.lsi = <<>>]
    /\ Cardinality({ l2 \in L2Nodes(old) : l2 \notin L2Nodes(new) }) <= 1

====
